---- MODULE Spec2Model ----
(***************************************************************************)
(* Model of the signal generation and backtesting engine of the            *)
(* algo-trading system (src/utils.py, src/strategy.py, src/main.py).       *)
(*                                                                         *)
(* Prices are integers.  A floating point value that the code derives by   *)
(* division is kept as an exact fraction [n, d]; the fraction with d = 0   *)
(* is NaN (pandas' null), and every comparison with NaN is FALSE, as in    *)
(* IEEE arithmetic, which is what the code's conditions rely on.           *)
(* Bars are indexed from 0 as in the source; the timestamp of a bar is its *)
(* index (PriceSeries timestamps are strictly increasing).                 *)
(***************************************************************************)
EXTENDS Integers, Sequences, FiniteSets, TLC

----------------------------------------------------------------------------
(* Exact fractions with NaN *)

NaN == [n |-> 0, d |-> 0]

Frac(a, b) == IF b = 0 THEN NaN ELSE IF b < 0 THEN [n |-> -a, d |-> -b] ELSE [n |-> a, d |-> b]

Num(x) == [n |-> x, d |-> 1]

isna(x) == x.d = 0

Lt(a, b) == a.d > 0 /\ b.d > 0 /\ a.n * b.d < b.n * a.d

Gt(a, b) == Lt(b, a)

Le(a, b) == a.d > 0 /\ b.d > 0 /\ a.n * b.d <= b.n * a.d

----------------------------------------------------------------------------
(* Program constants *)

RSI_PERIOD == 14

MA_SHORT_WINDOW == 20

MA_LONG_WINDOW == 50

RSI_OVERBOUGHT == 70

INITIAL_CAPITAL == 100000

MIN_BARS == 100

----------------------------------------------------------------------------
(* Price source: the series handed to the engine.  A series is a base      *)
(* price followed by blocks of bars; each block is a decline (D), a rise   *)
(* (R), a steep rise (U), a two-bar swing, one bar far below and one bar   *)
(* far above the level, followed by a decline (W), or unchanged bars (F).  *)

Block == [len |-> 10, swing |-> 400]

Bases == {1000, 200000}

\* change of the underlying price level at offset j of a block of kind b
Step(b, j) ==
    CASE b = "D" -> -1
      [] b = "U" -> 3
      [] b = "R" -> 1
      [] b = "W" -> IF j < 2 THEN 0 ELSE -1
      [] b = "F" -> 0

\* displacement of the close from the underlying level at offset j
Swing(b, j) ==
    IF b = "W" THEN (IF j = 0 THEN -Block.swing ELSE IF j = 1 THEN Block.swing ELSE 0) ELSE 0

KindAt(blocks, t) == blocks[(t \div Block.len) + 1]

\* change of the level over offsets lo..hi of a block of kind b
RECURSIVE Drift(_, _, _)
Drift(b, lo, hi) == IF lo > hi THEN 0 ELSE Step(b, hi) + Drift(b, lo, hi - 1)

\* change of the level over the first k blocks (bar 0 is the base itself)
RECURSIVE DriftOfBlocks(_, _)
DriftOfBlocks(blocks, k) ==
    IF k = 0 THEN 0
    ELSE DriftOfBlocks(blocks, k - 1) + Drift(blocks[k], IF k = 1 THEN 1 ELSE 0, Block.len - 1)

\* underlying level at bar t
Level(base, blocks, t) ==
    LET k == t \div Block.len
        j == t % Block.len
    IN  base + DriftOfBlocks(blocks, k) + Drift(blocks[k + 1], IF k = 0 THEN 1 ELSE 0, j)

\* the series as a column indexed from bar 0
BuildSeries(base, blocks) ==
    [t \in 0..(Len(blocks) * Block.len - 1) |->
        IF t = 0 THEN base
        ELSE Level(base, blocks, t) + Swing(KindAt(blocks, t), t % Block.len)]

\* n blocks, declining except for the listed events
Script(n, events) == [k \in 1..n |-> IF k \in DOMAIN events THEN events[k] ELSE "D"]

NoEvent == [k \in {} |-> "D"]

Scripts ==
    { Script(10, NoEvent),
      Script(10, 2 :> "U" @@ 10 :> "U"),
      Script(10, 8 :> "W"),
      Script(10, 8 :> "W" @@ 10 :> "U"),
      Script(10, 8 :> "W" @@ 9 :> "U"),
      Script(10, 4 :> "W" @@ 8 :> "W"),
      Script(11, 4 :> "W" @@ 8 :> "W" @@ 11 :> "R"),
      Script(10, 7 :> "R" @@ 8 :> "W" @@ 10 :> "R"),
      Script(10, 5 :> "W" @@ 7 :> "U" @@ 10 :> "R"),
      Script(10, 4 :> "W" @@ 6 :> "U"),
      Script(4, NoEvent),
      Script(4, 4 :> "U") }

\* the scenario series of the specification: 60 closes 100, 101, ..., 159
UptrendSeries == [t \in 0..59 |-> 100 + t]

----------------------------------------------------------------------------
(* Indicator Engine, src/utils.py *)

NumBars(col) == Cardinality(DOMAIN col)

\* a finite floating point value whose magnitude the model does not track
\* (exponentially weighted means, standard deviations)
Finite == [n |-> 1, d |-> 1]

RECURSIVE SumOver(_, _, _)
SumOver(f, lo, hi) == IF lo > hi THEN 0 ELSE f[hi] + SumOver(f, lo, hi - 1)

\* variant: the mean of the bars available so far (min_periods = 1)
RollingMean_Partial(col, window, i) ==
    IF i < window - 1 THEN Frac(SumOver(col, 0, i), i + 1)
    ELSE Frac(SumOver(col, i - window + 1, i), window)

\* Series.rolling(window).mean(): NaN until the window is full
RollingMean(col, window, i) ==
    IF i < window - 1 THEN NaN ELSE Frac(SumOver(col, i - window + 1, i), window)

\* delta.where(delta > 0, 0): the NaN of bar 0 fails the test and becomes 0
GainCol(close) ==
    [i \in DOMAIN close |->
        IF i = 0 THEN 0 ELSE IF close[i] - close[i-1] > 0 THEN close[i] - close[i-1] ELSE 0]

\* -delta.where(delta < 0, 0)
LossCol(close) ==
    [i \in DOMAIN close |->
        IF i = 0 THEN 0 ELSE IF close[i] - close[i-1] < 0 THEN -(close[i] - close[i-1]) ELSE 0]

\* variant: a zero average loss is treated as undefined instead of saturating
RsiOf_LossZeroNull(gain, loss) ==
    IF isna(gain) \/ isna(loss) \/ loss.n = 0 THEN NaN
    ELSE LET rsn == gain.n * loss.d
             rsd == loss.n * gain.d
         IN  Frac(100 * (rsd + rsn) - 100 * rsd, rsd + rsn)

\* rs = gain / loss on floats: x/0 is inf, 0/0 is NaN; rsi = 100 - 100/(1 + rs)
RsiOf(gain, loss) ==
    IF isna(gain) \/ isna(loss) THEN NaN
    ELSE IF loss.n = 0 THEN (IF gain.n = 0 THEN NaN ELSE Num(100))
    ELSE LET rsn == gain.n * loss.d
             rsd == loss.n * gain.d
         IN  Frac(100 * (rsd + rsn) - 100 * rsd, rsd + rsn)

calculate_rsi(close) ==
    LET g == GainCol(close)
        l == LossCol(close)
    IN  [i \in DOMAIN close |->
            RsiOf(RollingMean(g, RSI_PERIOD, i), RollingMean(l, RSI_PERIOD, i))]

\* Series.ewm(span).mean() has min_periods = 0: defined from bar 0 on
calculate_macd(close) == [i \in DOMAIN close |-> Finite]

calculate_moving_averages(close) ==
    [short |-> [i \in DOMAIN close |-> RollingMean(close, MA_SHORT_WINDOW, i)],
     long  |-> [i \in DOMAIN close |-> RollingMean(close, MA_LONG_WINDOW, i)]]

\* ma +/- 2 * rolling(20).std(): NaN until 20 bars are available
calculate_bollinger_bands(close) ==
    LET ma == [i \in DOMAIN close |-> RollingMean(close, MA_SHORT_WINDOW, i)]
        band == [i \in DOMAIN close |-> IF i < MA_SHORT_WINDOW - 1 THEN NaN ELSE Finite]
    IN  [upper |-> band, middle |-> ma, lower |-> band]

\* a column is computed once, when it is assigned to the table; comparing
\* the function with itself makes the model checker tabulate it once too
Series(col) == CHOOSE f \in {col} : f = f

\* the table after add_technical_indicators: the columns are added to the
\* table that was passed in
add_technical_indicators(close) ==
    LET ma == calculate_moving_averages(close)
        bb == calculate_bollinger_bands(close)
        macd == Series(calculate_macd(close))
    IN  [Close |-> close,
         RSI |-> Series(calculate_rsi(close)),
         MACD |-> macd, MACD_Signal |-> macd, MACD_Histogram |-> macd,
         MA20 |-> Series(ma.short), MA50 |-> Series(ma.long),
         BB_Upper |-> Series(bb.upper), BB_Middle |-> Series(bb.middle),
         BB_Lower |-> Series(bb.lower)]

----------------------------------------------------------------------------
(* Signal Generator and Backtester, src/strategy.py *)

OversoldSet == {30, 80}

None == [none |-> TRUE]

VARIABLES
    rsi_oversold,      \* TradingStrategy.rsi_oversold
    portfolio_value,   \* TradingStrategy.portfolio_value, the running capital
    data,              \* the table object handed to backtest, as the call leaves it
    ticker,            \* the symbol being backtested
    signals,           \* backtest: signals
    idx,               \* backtest: position of the for loop in signals
    current_position,  \* backtest: current_position
    trades,            \* backtest: trades
    metrics,           \* result of calculate_metrics on the returned trades
    pc,                \* "idle", "loop", "returned", "measured"
    calls,             \* number of symbols handed to this instance so far
    capital_at_call,   \* portfolio_value when the current call started
    fresh,             \* the same call run on a newly constructed TradingStrategy
    model_type,        \* MLPredictor.model_type
    model,             \* MLPredictor.model
    scaler,            \* MLPredictor.scaler
    accuracy,          \* MLPredictor.accuracy
    ml_op,             \* the last call on the predictor: "none", "train", "predict"
    ml_data,           \* the table handed to that call (its place in MLTables)
    ml_ret,            \* what that call returned
    ml_calls,          \* number of calls on the predictor so far
    stock_data,        \* the frame fetched for each configured symbol
    tg_env,            \* how the Telegram endpoint answers
    gs_env,            \* how the spreadsheet answers
    all_trades,        \* AlgoTradingSystem.all_trades
    all_signals,       \* AlgoTradingSystem.all_signals
    ml_predictions,    \* AlgoTradingSystem.ml_predictions
    last_fit,          \* the symbol ml_predictor was fitted on last, 0 if none
    sys_op,            \* the last call on the system or on one of its sinks
    sys_raised,        \* whether that call raised
    sys_ret,           \* what that call returned
    sys_log,           \* what that call handed to the logger and the sinks
    sheets_logger      \* AlgoTradingSystem.sheets_logger

strategyVars == <<rsi_oversold, portfolio_value, data, ticker, signals, idx,
                  current_position, trades, metrics, pc, calls, capital_at_call, fresh>>

predictorVars == <<model_type, model, scaler, accuracy, ml_op, ml_data, ml_ret, ml_calls>>

systemVars == <<stock_data, tg_env, gs_env, all_trades, all_signals, ml_predictions,
                last_fit, sys_op, sys_raised, sys_ret, sys_log, sheets_logger>>

vars == <<strategyVars, predictorVars, systemVars>>

MaxCalls == 2

\* variant: the short average above the long one, without the crossover test
BuyCondition_NoCrossover(d, i, oversold) ==
    /\ Lt(d.RSI[i], Num(oversold))
    /\ Gt(d.MA20[i], d.MA50[i])
    /\ ~isna(d.RSI[i])
    /\ ~isna(d.MA20[i])
    /\ ~isna(d.MA50[i])

\* strategy.py 22-27
BuyCondition(d, i, oversold) ==
    /\ Lt(d.RSI[i], Num(oversold))
    /\ Gt(d.MA20[i], d.MA50[i])
    /\ Le(d.MA20[i-1], d.MA50[i-1])
    /\ ~isna(d.RSI[i])
    /\ ~isna(d.MA20[i])
    /\ ~isna(d.MA50[i])

\* variant: the SELL test repeats the null checks of the BUY test
SellCondition_NeedsAverages(d, i) ==
    /\ Gt(d.RSI[i], Num(RSI_OVERBOUGHT))
    /\ ~isna(d.RSI[i])
    /\ ~isna(d.MA20[i])
    /\ ~isna(d.MA50[i])

\* strategy.py 38-39
SellCondition(d, i) ==
    /\ Gt(d.RSI[i], Num(RSI_OVERBOUGHT))
    /\ ~isna(d.RSI[i])

MakeSignal(d, i, kind) ==
    [date |-> i, signal |-> kind, price |-> d.Close[i],
     rsi |-> d.RSI[i], ma20 |-> d.MA20[i], ma50 |-> d.MA50[i]]

\* variant: the SELL condition is tested before the BUY condition
SignalKind_SellFirst(d, i, oversold) ==
    IF SellCondition(d, i) THEN "SELL"
    ELSE IF BuyCondition(d, i, oversold) THEN "BUY"
    ELSE "NONE"

\* what the loop body of generate_signals appends for bar i
SignalKind(d, i, oversold) ==
    IF BuyCondition(d, i, oversold) THEN "BUY"
    ELSE IF SellCondition(d, i) THEN "SELL"
    ELSE "NONE"

\* generate_signals on the table with its indicator columns: the loop runs
\* over bars 1..len-1 in order and appends at most one signal per bar
generate_signals(d, oversold) ==
    LET n == NumBars(d.Close)
        kind == [i \in 1..(n - 1) |-> SignalKind(d, i, oversold)]
        emitting == SelectSeq([i \in 1..(n - 1) |-> i], LAMBDA i : kind[i] # "NONE")
    IN  [k \in 1..Len(emitting) |-> MakeSignal(d, emitting[k], kind[emitting[k]])]

\* variant: the averages are taken over the windows of the instance
strategy_signals_OwnWindows(self, close) ==
    LET d == add_technical_indicators(close)
        own == [d EXCEPT
                  !.MA20 = Series([i \in DOMAIN close |-> RollingMean(close, self.ma_short, i)]),
                  !.MA50 = Series([i \in DOMAIN close |-> RollingMean(close, self.ma_long, i)])]
    IN  generate_signals(own, self.rsi_oversold)

\* TradingStrategy.generate_signals, strategy.py 17-50, on the instance
\* self = [rsi_oversold, ma_short, ma_long] of strategy.py 9-12: line 18
\* calls add_technical_indicators(data) without the windows of the instance
strategy_signals(self, close) ==
    generate_signals(add_technical_indicators(close), self.rsi_oversold)

\* variant: the share count is rounded up
FloorDiv_Up(a, b) == (a + b - 1) \div b

\* Python's // on a positive divisor
FloorDiv(a, b) == a \div b

\* strategy.py 59-64
OpenedPosition(signal, tk, capital) ==
    [entry_date |-> signal.date,
     entry_price |-> signal.price,
     ticker |-> tk,
     quantity |-> FloorDiv(capital, signal.price)]

\* variant: the price difference taken the other way round
Pnl_Reversed(signal, position) == (position.entry_price - signal.price) * position.quantity

\* strategy.py 67-68
Pnl(signal, position) == (signal.price - position.entry_price) * position.quantity

\* strategy.py 70-79
ClosedTrade(signal, tk, position) ==
    [ticker |-> tk,
     entry_date |-> position.entry_date,
     exit_date |-> signal.date,
     entry_price |-> position.entry_price,
     exit_price |-> signal.price,
     quantity |-> position.quantity,
     pnl |-> Pnl(signal, position),
     return_pct |-> Frac((signal.price - position.entry_price) * 100, position.entry_price)]

\* variant: a BUY opens a position whether or not one is open
LoopBody_Pyramiding(r, signal, tk) ==
    IF signal.signal = "BUY"
    THEN [r EXCEPT !.position = OpenedPosition(signal, tk, r.capital)]
    ELSE IF signal.signal = "SELL" /\ r.position # None
    THEN [position |-> None,
          trades |-> Append(r.trades, ClosedTrade(signal, tk, r.position)),
          capital |-> r.capital + Pnl(signal, r.position)]
    ELSE r

\* variant: a SELL records the trade but leaves the position open
LoopBody_KeepOpen(r, signal, tk) ==
    IF signal.signal = "BUY" /\ r.position = None
    THEN [r EXCEPT !.position = OpenedPosition(signal, tk, r.capital)]
    ELSE IF signal.signal = "SELL" /\ r.position # None
    THEN [position |-> r.position,
          trades |-> Append(r.trades, ClosedTrade(signal, tk, r.position)),
          capital |-> r.capital + Pnl(signal, r.position)]
    ELSE r

\* variant: a SELL records the trade but does not credit the capital
LoopBody_NoCredit(r, signal, tk) ==
    IF signal.signal = "BUY" /\ r.position = None
    THEN [r EXCEPT !.position = OpenedPosition(signal, tk, r.capital)]
    ELSE IF signal.signal = "SELL" /\ r.position # None
    THEN [position |-> None,
          trades |-> Append(r.trades, ClosedTrade(signal, tk, r.position)),
          capital |-> r.capital]
    ELSE r

\* one iteration of the for loop of backtest on the run r =
\* [position, trades, capital]
LoopBody(r, signal, tk) ==
    IF signal.signal = "BUY" /\ r.position = None
    THEN [r EXCEPT !.position = OpenedPosition(signal, tk, r.capital)]
    ELSE IF signal.signal = "SELL" /\ r.position # None
    THEN [position |-> None,
          trades |-> Append(r.trades, ClosedTrade(signal, tk, r.position)),
          capital |-> r.capital + Pnl(signal, r.position)]
    ELSE r

\* numpy's division of float64 values: x/0 is an infinity of the sign of x
\* and 0/0 is NaN; it warns and never raises
NegInf == [n |-> -1, d |-> 0]

PosInf == [n |-> 1, d |-> 0]

FloatDiv(a, b) ==
    IF b # 0 THEN Frac(a, b)
    ELSE IF a = 0 THEN NaN ELSE IF a < 0 THEN NegInf ELSE PosInf

IsNaN(x) == x.d = 0 /\ x.n = 0

IsFinite(x) == x.d > 0

\* a <= b on floats that are not NaN
FloatLe(a, b) ==
    IF a.d = 0 THEN a.n < 0 \/ b = PosInf
    ELSE IF b.d = 0 THEN b.n > 0
    ELSE a.n * b.d <= b.n * a.d

\* np.min: NaN as soon as one element is NaN, else the least element
FloatMin(xs) ==
    IF \E k \in 1..Len(xs) : IsNaN(xs[k]) THEN NaN
    ELSE xs[CHOOSE k \in 1..Len(xs) : \A j \in 1..Len(xs) : FloatLe(xs[k], xs[j])]

RECURSIVE SumPnl(_)
SumPnl(ts) == IF ts = << >> THEN 0 ELSE ts[1].pnl + SumPnl(Tail(ts))

\* np.cumsum(pnl) at position k
CumulativeReturns(ts, k) == SumPnl(SubSeq(ts, 1, k))

\* np.maximum.accumulate(cumulative_returns) at position k
Peak(ts, k) ==
    LET c == [j \in 1..k |-> CumulativeReturns(ts, j)]
    IN  c[CHOOSE j \in 1..k : \A i \in 1..k : c[i] <= c[j]]

\* variant: the fall below the peak is taken relative to the size of the peak
Drawdown_AbsPeak(ts, k) ==
    LET p == Peak(ts, k)
    IN  FloatDiv((CumulativeReturns(ts, k) - p) * 100, IF p < 0 THEN -p ELSE p)

\* (cumulative_returns - peak) / peak * 100 at position k
Drawdown(ts, k) ==
    FloatDiv((CumulativeReturns(ts, k) - Peak(ts, k)) * 100, Peak(ts, k))

\* np.mean of the return_pct column; the model keeps the terms of the mean
\* and does not reduce them to one number
MeanOf(xs) == [mean_of |-> xs]

\* strategy.py 88-95
EmptyMetrics ==
    [total_trades |-> 0, win_rate |-> Num(0), total_pnl |-> 0,
     avg_return |-> Num(0), max_drawdown |-> Num(0)]

\* variant: a break-even trade counts as winning
IsWinning_OrEven(t) == t.pnl >= 0

\* strategy.py 98
IsWinning(t) == t.pnl > 0

\* strategy.py 87-116
calculate_metrics(ts) ==
    IF ts = << >>
    THEN EmptyMetrics
    ELSE LET total_trades == Len(ts)
             winning_trades == Cardinality({k \in 1..Len(ts) : IsWinning(ts[k])})
         IN  [total_trades |-> total_trades,
              win_rate |-> IF total_trades > 0
                           THEN Frac(winning_trades * 100, total_trades) ELSE Num(0),
              total_pnl |-> SumPnl(ts),
              avg_return |-> MeanOf([k \in 1..Len(ts) |-> ts[k].return_pct]),
              max_drawdown |-> FloatMin([k \in 1..Len(ts) |-> Drawdown(ts, k)]),
              winning_trades |-> winning_trades,
              losing_trades |-> total_trades - winning_trades]

----------------------------------------------------------------------------
(* Inputs *)

ShortLens == {1, 14, 20, 49, 50}

Truncate(col, n) == [t \in 0..(n - 1) |-> col[t]]

Inputs ==
    {BuildSeries(b, s) : b \in Bases, s \in Scripts}
        \cup {UptrendSeries} \cup {Truncate(UptrendSeries, n) : n \in ShortLens}

TickerOf(n) == IF n = 0 THEN "T1" ELSE IF n = 1 THEN "T2" ELSE "T3"

\* trade ledgers handed to calculate_metrics directly: up to MaxTrades
\* closed trades of one share entered at 100, so that the pnl of a trade is
\* -50, 0, 100 or 200
MaxTrades == 3

ExitPrices == {50, 100, 200, 300}

LedgerTrade(exits, k) ==
    ClosedTrade([date |-> 2 * k, price |-> exits[k]], "T1",
                [entry_date |-> 2 * k - 1, entry_price |-> 100, quantity |-> 1])

Ledger(exits) == [k \in 1..Len(exits) |-> LedgerTrade(exits, k)]

Ledgers == {Ledger(exits) : exits \in UNION {[1..n -> ExitPrices] : n \in 0..MaxTrades}}

----------------------------------------------------------------------------
(* Feature/Label Pipeline, src/ml_model.py *)

\* the tables handed to the predictor: a Close and a Volume column.  The
\* volume is 1000 on every bar ("flat"), or 1000 up to bar 89 and 5000 from
\* bar 90 on ("late").
VolumeAt(kind, t) ==
    CASE kind = "flat" -> 1000
      [] kind = "late" -> IF t < 90 THEN 1000 ELSE 5000

Table(close, kind) ==
    [Close |-> Series(close), Volume |-> Series([t \in DOMAIN close |-> VolumeAt(kind, t)])]

Swinging == BuildSeries(1000, Script(10, 4 :> "W" @@ 8 :> "W"))

SwingingLong == BuildSeries(1000, Script(11, 4 :> "W" @@ 8 :> "W" @@ 11 :> "R"))

FlatTail == BuildSeries(1000, Script(11, 4 :> "W" @@ 10 :> "F" @@ 11 :> "F"))

MLTables ==
    << Table(Swinging, "flat"),
       Table(Swinging, "late"),
       Table(Truncate(Swinging, 99), "flat"),
       Table(Truncate(Swinging, 98), "flat"),
       Table(SwingingLong, "flat"),
       Table(FlatTail, "flat"),
       Table(Truncate(UptrendSeries, 20), "flat") >>

TableIds == 1..Len(MLTables)

\* Series.pct_change(): NaN on bar 0
PctChange(close, i) ==
    IF i = 0 THEN NaN ELSE FloatDiv(close[i] - close[i-1], close[i-1])

\* variant: the change towards the next bar
PriceChangeCol_Forward(close) ==
    [i \in DOMAIN close |->
        IF i = NumBars(close) - 1 THEN NaN ELSE PctChange(close, i + 1)]

\* ml_model.py 27
PriceChangeCol(close) == [i \in DOMAIN close |-> PctChange(close, i)]

\* ml_model.py 24: pct_change().shift(-1), NaN on the last bar
NextDayReturnCol(close) ==
    [i \in DOMAIN close |->
        IF i = NumBars(close) - 1 THEN NaN ELSE PctChange(close, i + 1)]

\* ml_model.py 25: (Next_Day_Return > 0).astype(int); NaN > 0 is False
TargetOf(next_day_return) ==
    IF Gt(next_day_return, Num(0)) THEN Num(1) ELSE Num(0)

\* ml_model.py 28-31: Volume / Volume_MA with NaN replaced by 1.0
VolumeRatioCol(volume) ==
    [i \in DOMAIN volume |->
        LET volume_ma == RollingMean(volume, 20, i)
            ratio == FloatDiv(volume[i] * volume_ma.d, volume_ma.n)
        IN  IF IsNaN(ratio) THEN Num(1) ELSE ratio]

\* ml_model.py 21-36
prepare_features(tb) ==
    LET d == add_technical_indicators(tb.Close)
        ndr == Series(NextDayReturnCol(tb.Close))
    IN  [Volume |-> tb.Volume,
         Next_Day_Return |-> ndr,
         Target |-> Series([i \in DOMAIN tb.Close |-> TargetOf(ndr[i])]),
         Price_Change |-> Series(PriceChangeCol(tb.Close)),
         Volume_Ratio |-> Series(VolumeRatioCol(tb.Volume))] @@ d

\* ml_model.py 33-34
feature_columns ==
    <<"RSI", "MACD", "Volume_Ratio", "MA20", "MA50", "Price_Change", "MACD_Histogram">>

Columns(names) == {names[k] : k \in 1..Len(names)}

\* prepare_features applied to each table, once
Prepared == [k \in TableIds |-> prepare_features(MLTables[k])]

LastRow(d) == NumBars(d.Close) - 1

\* the values of row i in the listed columns
RowOf(d, i, names) == [c \in Columns(names) |-> d[c][i]]

\* DataFrame.dropna(): the rows without a NaN in the listed columns
DropNa(d, rows, names) == {i \in rows : \A c \in Columns(names) : ~IsNaN(d[c][i])}

\* ml_model.py 42
clean_data(d) == DropNa(d, DOMAIN d.Close, feature_columns \o <<"Target">>)

\* clean_data of each prepared table, once
CleanData == [k \in TableIds |-> clean_data(Prepared[k])]

----------------------------------------------------------------------------
(* Classifier Wrapper, src/ml_model.py *)

ModelTypes == {"DecisionTree", "LogisticRegression", "RandomForest"}

\* StandardScaler(), not fitted yet
UnfittedScaler == [fitted |-> FALSE]

\* the scaler after fit_transform on the training rows
FittedScaler(X) == [fitted |-> TRUE, X |-> X]

\* ml_model.py 58-67: a classifier of the configured kind, not fitted yet
NewClassifier(kind) == [kind |-> kind, fitted |-> FALSE]

\* the classifier after fit; the library's algorithm is deterministic
\* (random_state = 42), so the fitted classifier is named by what it was
\* fitted on
FittedClassifier(kind, X, y) == [kind |-> kind, fitted |-> TRUE, X |-> X, y |-> y]

\* accuracy_score on the held-out rows, a number determined by the classifier
AccuracyOf(m) == [accuracy_score |-> m]

MIN_TRAINING_ROWS == 50

\* how far a call of train_model gets: it completes, or one of the library
\* calls raises (train_test_split at 51, fit_transform at 55, fit at 70/73);
\* a fit_transform that raises is taken to leave the scaler as it was
Outcomes == {"ok", "split_raises", "scale_raises", "fit_raises"}

\* variant: the scaler is fitted before the number of rows is tested
train_model_FitFirst(self, k, outcome) ==
    LET d == Prepared[k]
        rows == CleanData[k]
        X == [i \in rows |-> RowOf(d, i, feature_columns)]
        y == [i \in rows |-> d.Target[i]]
        fitted == FittedClassifier(self.model_type, X, y)
    IN  IF Cardinality(rows) < MIN_TRAINING_ROWS
        THEN [self |-> [self EXCEPT !.scaler = FittedScaler(X)], ret |-> FALSE]
        ELSE IF outcome = "ok"
        THEN [self |-> [self EXCEPT !.scaler = FittedScaler(X), !.model = fitted,
                                    !.accuracy = AccuracyOf(fitted)],
              ret |-> TRUE]
        ELSE [self |-> self, ret |-> FALSE]

\* ml_model.py 38-85 on the predictor self and table k
train_model(self, k, outcome) ==
    LET d == Prepared[k]
        rows == CleanData[k]
        X == [i \in rows |-> RowOf(d, i, feature_columns)]
        y == [i \in rows |-> d.Target[i]]
        fitted == FittedClassifier(self.model_type, X, y)
    IN  IF Cardinality(rows) < MIN_TRAINING_ROWS
        THEN [self |-> self, ret |-> FALSE]
        ELSE CASE outcome = "split_raises" ->
                    [self |-> self, ret |-> FALSE]
               [] outcome = "scale_raises" ->
                    [self |-> self, ret |-> FALSE]
               [] outcome = "fit_raises" ->
                    [self |-> [self EXCEPT !.scaler = FittedScaler(X),
                                           !.model = NewClassifier(self.model_type)],
                     ret |-> FALSE]
               [] outcome = "ok" ->
                    [self |-> [self EXCEPT !.scaler = FittedScaler(X),
                                           !.model = fitted,
                                           !.accuracy = AccuracyOf(fitted)],
                     ret |-> TRUE]

\* ml_model.py 100-106: the row the classifier is given
ModelInput(self, row) ==
    IF self.model_type = "LogisticRegression" THEN [scaled_by |-> self.scaler, row |-> row]
    ELSE [row |-> row]

\* the labels the classifier has seen; predict_proba has one column for each
Classes(m) == {m.y[i] : i \in DOMAIN m.y}

\* an estimator or scaler that was not fitted raises when it is used, and
\* probability[1] at ml_model.py 111 raises when there is one column only
CanPredict(self) ==
    /\ self.model.fitted
    /\ Cardinality(Classes(self.model)) >= 2
    /\ self.model_type = "LogisticRegression" => self.scaler.fitted

\* ml_model.py 108-113: the answer of the classifier, determined by the
\* classifier and its input
Prediction(self, row) == [predicted_by |-> self.model, input |-> ModelInput(self, row)]

\* variant: the most recent complete row is used
predict_Fallback(self, k) ==
    IF self.model = None THEN None
    ELSE LET d == Prepared[k]
             complete == DropNa(d, DOMAIN d.Close, feature_columns)
         IN  IF complete = {} THEN None
             ELSE IF ~CanPredict(self) THEN None
             ELSE Prediction(self, RowOf(d, CHOOSE i \in complete : \A j \in complete : j <= i,
                                         feature_columns))

\* ml_model.py 87-117 on the predictor self and table k
predict(self, k) ==
    IF self.model = None THEN None
    ELSE LET d == Prepared[k]
             latest_data == DropNa(d, {LastRow(d)}, feature_columns)
         IN  IF latest_data = {} THEN None
             ELSE IF ~CanPredict(self) THEN None
             ELSE Prediction(self, RowOf(d, LastRow(d), feature_columns))

----------------------------------------------------------------------------
(* Batch pipeline and output sinks: src/main.py, src/telegram_bot.py,      *)
(* src/google_sheets_logger.py.  A call either returns a value or raises;  *)
(* its outcome is a record with what it returned and what it handed to the *)
(* logger and the sinks on the way.                                        *)

NumSymbols == 2

Symbols == 1..NumSymbols

\* the frame fetched for a symbol: None, fewer than 100 rows, 100 rows
\* without a trade or a signal, 100 rows with signals and a closed trade,
\* or 100 rows on which backtest raises (a frame without a Close column)
FrameKinds == {"none", "short", "quiet", "active", "faulty"}

\* the state of the Telegram endpoint: the placeholder token of config.py,
\* a reply with status 200, a reply with another status, no connection
TelegramEnvs == {"placeholder", "ok", "non200", "network"}

\* the state of the spreadsheet service: the credentials are there and it
\* accepts writes, the credentials are there and the worksheet API raises,
\* the credentials file is missing, or the connection setup fails
SheetsEnvs == {"ok", "api_raises", "no_credentials", "setup_fails"}

Returns(v, log) == [raised |-> FALSE, ret |-> v, log |-> log]

Raises(log) == [raised |-> TRUE, ret |-> None, log |-> log]

\* the statements of a block one after the other, up to the first that raises
RECURSIVE TryBlock(_)
TryBlock(outcomes) ==
    IF outcomes = << >> THEN Returns(None, << >>)
    ELSE LET first == Head(outcomes)
         IN  IF first.raised THEN first
             ELSE LET rest == TryBlock(Tail(outcomes))
                  IN  [rest EXCEPT !.log = first.log \o @]

Handed(sink, event, payload, ok) ==
    [sink |-> sink, event |-> event, payload |-> payload, ok |-> ok]

\* variant: a failed request raises out of send_message
send_message_Raising(tg, event, payload) ==
    CASE tg = "placeholder" -> Returns(TRUE, <<Handed("telegram", event, payload, FALSE)>>)
      [] tg = "ok"          -> Returns(TRUE, <<Handed("telegram", event, payload, TRUE)>>)
      [] tg = "non200"      -> Returns(FALSE, <<Handed("telegram", event, payload, FALSE)>>)
      [] tg = "network"     -> Raises(<<Handed("telegram", event, payload, FALSE)>>)

\* telegram_bot.py 12-36; the message is named by its event and its payload
send_message(tg, event, payload) ==
    CASE tg = "placeholder" -> Returns(TRUE, <<Handed("telegram", event, payload, FALSE)>>)
      [] tg = "ok"          -> Returns(TRUE, <<Handed("telegram", event, payload, TRUE)>>)
      [] tg = "non200"      -> Returns(FALSE, <<Handed("telegram", event, payload, FALSE)>>)
      [] tg = "network"     -> Returns(FALSE, <<Handed("telegram", event, payload, FALSE)>>)

\* telegram_bot.py 38-55
send_trade_signal(tg, signal, tk) == send_message(tg, "trade_signal", <<tk, signal>>)

\* telegram_bot.py 75-92
send_ml_prediction(tg, prediction, tk) == send_message(tg, "ml_prediction", <<tk, prediction>>)

\* telegram_bot.py 94-115: metrics['winning_trades'] and
\* metrics['losing_trades'] are read while the message is built
send_daily_summary(tg, m) ==
    IF {"winning_trades", "losing_trades"} \subseteq DOMAIN m
    THEN send_message(tg, "daily_summary", m)
    ELSE Raises(<< >>)

\* telegram_bot.py 117-128
send_error_alert(tg, module_name) == send_message(tg, "error_alert", module_name)

\* telegram_bot.py 130-141
send_system_startup(tg) == send_message(tg, "system_startup", None)

\* variant: an exception of the worksheet API leaves the logger
worksheet_write_Propagating(gs, worksheet, rows) ==
    IF gs = "ok" THEN Returns(None, <<Handed("sheets", worksheet, rows, TRUE)>>)
    ELSE Raises(<<Handed("sheets", worksheet, rows, FALSE)>>)

\* the try block of a log_* method, google_sheets_logger.py 59-85, 92-114,
\* 117-151, 158-190: create_or_get_worksheet, clear, update; an exception of
\* the worksheet API, or of workbook being None, is logged by the except
worksheet_write(gs, worksheet, rows) ==
    IF gs = "ok" THEN Returns(None, <<Handed("sheets", worksheet, rows, TRUE)>>)
    ELSE Returns(None, <<Handed("sheets", worksheet, rows, FALSE)>>)

\* google_sheets_logger.py 55-85
log_trades(gs, ts) ==
    IF ts = << >> THEN Returns(None, << >>) ELSE worksheet_write(gs, "Trades", ts)

\* google_sheets_logger.py 87-114
log_signals(gs, sigs) ==
    IF sigs = << >> THEN Returns(None, << >>) ELSE worksheet_write(gs, "Signals", sigs)

\* google_sheets_logger.py 116-151
log_summary(gs, m, ml_metrics) == worksheet_write(gs, "Summary", <<m, ml_metrics>>)

\* google_sheets_logger.py 153-190
log_ml_predictions(gs, predictions) ==
    IF predictions = << >> THEN Returns(None, << >>)
    ELSE worksheet_write(gs, "ML_Predictions", predictions)

\* google_sheets_logger.py 16-42: FileNotFoundError and every other exception
\* are caught and logged; workbook is assigned only when the spreadsheet was
\* opened or created
setup_connection(gs) ==
    IF gs \in {"ok", "api_raises"}
    THEN [ret |-> TRUE, workbook |-> [title |-> "GOOGLE_SHEET_NAME"]]
    ELSE [ret |-> FALSE, workbook |-> None]

\* GoogleSheetsLogger.__init__, google_sheets_logger.py 9-14: the result of
\* setup_connection is not looked at
GoogleSheetsLogger(gs) ==
    Returns([class |-> "GoogleSheetsLogger", workbook |-> setup_connection(gs).workbook], << >>)

\* google_sheets_logger.py 192-194
MockGoogleSheetsLogger == [class |-> "MockGoogleSheetsLogger"]

\* main.py 37-41: the mock is taken when the constructor raises
new_sheets_logger(gs) ==
    LET made == GoogleSheetsLogger(gs)
    IN  IF made.raised THEN MockGoogleSheetsLogger ELSE made.ret

\* main.py 83 and 116: the frame is skipped
Skipped(frame) == frame \in {"none", "short"}

\* what backtest returns on the frame of symbol s
SymbolSignals(s) ==
    <<[date |-> "earlier", signal |-> "BUY", price |-> 100 * s,
       rsi |-> Num(25), ma20 |-> Num(100 * s), ma50 |-> Num(99 * s)],
      [date |-> "today", signal |-> "SELL", price |-> 110 * s,
       rsi |-> Num(75), ma20 |-> Num(105 * s), ma50 |-> Num(100 * s)]>>

SymbolTrades(s) ==
    <<ClosedTrade(SymbolSignals(s)[2], TickerOf(s - 1),
                  [entry_date |-> "earlier", entry_price |-> 100 * s, quantity |-> 1])>>

\* strategy.backtest(data, ticker) at main.py 89
backtest_call(frame, s) ==
    CASE frame = "faulty" -> Raises(<< >>)
      [] frame = "active" -> Returns([trades |-> SymbolTrades(s), signals |-> SymbolSignals(s)], << >>)
      [] OTHER             -> Returns([trades |-> << >>, signals |-> << >>], << >>)

\* main.py 94-96: the signals of the last day are pushed to Telegram
RECURSIVE notify_recent(_, _, _)
notify_recent(tg, sigs, s) ==
    IF sigs = << >> THEN Returns(None, << >>)
    ELSE IF Head(sigs).date = "today"
    THEN TryBlock(<<send_trade_signal(tg, Head(sigs), TickerOf(s - 1)),
                 notify_recent(tg, Tail(sigs), s)>>)
    ELSE notify_recent(tg, Tail(sigs), s)

Analyzing(s) == [sink |-> "logger", event |-> "Analyzing", payload |-> s, ok |-> TRUE]

\* main.py 82-96: the for loop over stock_data, from symbol s on
RECURSIVE strategy_loop(_, _, _, _)
strategy_loop(stock, tg, s, acc) ==
    IF s > NumSymbols THEN acc
    ELSE IF Skipped(stock[s]) THEN strategy_loop(stock, tg, s + 1, acc)
    ELSE LET bt == backtest_call(stock[s], s)
             sent == IF bt.raised THEN bt ELSE notify_recent(tg, bt.ret.signals, s)
             log == acc.log \o <<Analyzing(s)>> \o sent.log
         IN  IF bt.raised \/ sent.raised
             THEN Raises(log)
             ELSE strategy_loop(stock, tg, s + 1,
                      [acc EXCEPT !.log = log,
                                  !.ret = [all_trades |-> @.all_trades \o bt.ret.trades,
                                           all_signals |-> @.all_signals \o bt.ret.signals]])

\* the except clause of a handler of main.py: the alert is sent and the
\* handler returns the value given
Except(tg, module_name, body, value) ==
    LET alert == send_error_alert(tg, module_name)
    IN  IF alert.raised THEN Raises(body.log \o alert.log)
        ELSE Returns(value, body.log \o alert.log)

\* main.py 75-107 on the system self; the outcome carries the system after
\* the call
run_strategy_analysis(self, stock, tg) ==
    LET loop == strategy_loop(stock, tg, 1,
                    Returns([all_trades |-> << >>, all_signals |-> << >>], << >>))
    IN  IF loop.raised
        THEN [self |-> self, out |-> Except(tg, "Strategy Analysis", loop, <<<< >>, << >>>>)]
        ELSE [self |-> [self EXCEPT !.all_trades = loop.ret.all_trades,
                                    !.all_signals = loop.ret.all_signals],
              out |-> Returns(<<loop.ret.all_trades, loop.ret.all_signals>>, loop.log)]

\* what train_model and predict return on the frame of symbol s: both catch
\* every exception themselves (ml_model.py 83-85, 115-117), so a frame
\* without a Close column makes train_model return False
train_call(frame) == frame = "active"

SymbolPrediction(s) ==
    [prediction |-> 1, probability_down |-> Frac(1, 4), probability_up |-> Frac(3, 4),
     confidence |-> Frac(3, 4), ticker |-> TickerOf(s - 1)]

Training(s) == [sink |-> "logger", event |-> "Training", payload |-> s, ok |-> TRUE]

\* main.py 115-136: the for loop over stock_data, from symbol s on
RECURSIVE ml_loop(_, _, _, _)
ml_loop(stock, tg, s, acc) ==
    IF s > NumSymbols THEN acc
    ELSE IF Skipped(stock[s]) THEN ml_loop(stock, tg, s + 1, acc)
    ELSE IF ~train_call(stock[s])
    THEN ml_loop(stock, tg, s + 1, [acc EXCEPT !.log = @ \o <<Training(s)>>])
    ELSE LET prediction == SymbolPrediction(s)
             sent == send_ml_prediction(tg, prediction, TickerOf(s - 1))
             log == acc.log \o <<Training(s)>> \o sent.log
         IN  IF sent.raised THEN Raises(log)
             ELSE ml_loop(stock, tg, s + 1,
                      [acc EXCEPT !.log = log,
                                  !.ret = [predictions |-> Append(@.predictions, prediction),
                                           last_fit |-> s]])

\* main.py 109-149
run_ml_analysis(self, stock, tg) ==
    LET loop == ml_loop(stock, tg, 1,
                    Returns([predictions |-> << >>, last_fit |-> self.last_fit], << >>))
    IN  IF loop.raised
        THEN [self |-> self, out |-> Except(tg, "ML Analysis", loop, << >>)]
        ELSE [self |-> [self EXCEPT !.ml_predictions = loop.ret.predictions,
                                    !.last_fit = loop.ret.last_fit],
              out |-> Returns(loop.ret.predictions, loop.log)]

\* main.py 181-213: the summary is printed from the same keys
print_summary(m, ml_metrics) ==
    IF {"winning_trades", "losing_trades"} \subseteq DOMAIN m
    THEN Returns(None, <<[sink |-> "stdout", event |-> "summary", payload |-> <<m, ml_metrics>>, ok |-> TRUE]>>)
    ELSE Raises(<< >>)

\* main.py 157-163; accuracy is that of the symbol fitted last
MLMetrics(self) ==
    IF self.ml_predictions # << >>
    THEN [accuracy |-> [accuracy_on |-> self.last_fit],
          total_predictions |-> Len(self.ml_predictions),
          avg_confidence |-> MeanOf([i \in DOMAIN self.ml_predictions |->
                                        self.ml_predictions[i].confidence])]
    ELSE None

\* main.py 151-179
calculate_and_log_metrics(self, tg, gs) ==
    LET strategy_metrics == calculate_metrics(self.all_trades)
        ml_metrics == MLMetrics(self)
        body == TryBlock(<<log_trades(gs, self.all_trades),
                        log_signals(gs, self.all_signals),
                        log_summary(gs, strategy_metrics, ml_metrics),
                        log_ml_predictions(gs, self.ml_predictions),
                        send_daily_summary(tg, strategy_metrics),
                        print_summary(strategy_metrics, ml_metrics)>>)
    IN  IF body.raised
        THEN Except(tg, "Metrics Calculation", body, <<None, None>>)
        ELSE Returns(<<strategy_metrics, ml_metrics>>, body.log)

\* main.py 55-73: fetch_multiple_stocks catches the failure of one download
\* and gives None for that ticker; the frames that are None are dropped from
\* the dictionary, which for the two loops is the same as skipping them
fetch_stock_data(stock) == {s \in Symbols : stock[s] # "none"}

\* main.py 215-247
run_full_analysis(self, stock, tg, gs) ==
    LET startup == send_system_startup(tg)
        strategy == run_strategy_analysis(self, stock, tg)
        ml == run_ml_analysis(strategy.self, stock, tg)
        logged == calculate_and_log_metrics(ml.self, tg, gs)
    IN  IF startup.raised
        THEN [self |-> self, out |-> Except(tg, "Full Analysis", startup, None)]
        ELSE IF fetch_stock_data(stock) = {}
        THEN [self |-> self, out |-> Returns(None, startup.log)]
        ELSE LET body == TryBlock(<<startup, strategy.out, ml.out, logged>>)
             IN  IF body.raised
                 THEN [self |-> (IF strategy.out.raised THEN self
                                 ELSE IF ml.out.raised THEN strategy.self ELSE ml.self),
                       out |-> Except(tg, "Full Analysis", body, None)]
                 ELSE [self |-> ml.self,
                       out |-> Returns([strategy_metrics |-> logged.ret[1],
                                        ml_metrics |-> logged.ret[2],
                                        trades |-> strategy.out.ret[1],
                                        signals |-> strategy.out.ret[2],
                                        predictions |-> ml.out.ret],
                                       body.log)]

----------------------------------------------------------------------------
(* State machine *)

NewRun == [position |-> None, trades |-> << >>, capital |-> INITIAL_CAPITAL]

\* AlgoTradingSystem.__init__, main.py 50-52, with the frames and the
\* answers of the two services it will meet
NewSystem(stock, tg, gs) ==
    /\ stock_data = stock
    /\ tg_env = tg
    /\ gs_env = gs
    /\ all_trades = << >>
    /\ all_signals = << >>
    /\ ml_predictions = << >>
    /\ last_fit = 0
    /\ sys_op = "none"
    /\ sys_raised = FALSE
    /\ sys_ret = None
    /\ sys_log = << >>
    /\ sheets_logger = new_sheets_logger(gs)

NoSystem == NewSystem([s \in Symbols |-> "none"], "placeholder", "no_credentials")

\* MLPredictor.__init__, ml_model.py 14-19
NewPredictor(kind) ==
    /\ model_type = kind
    /\ model = None
    /\ scaler = UnfittedScaler
    /\ accuracy = Num(0)
    /\ ml_op = "none"
    /\ ml_data = 0
    /\ ml_ret = None
    /\ ml_calls = 0

\* TradingStrategy.__init__, strategy.py 9-15
Init ==
    /\ NoSystem
    /\ NewPredictor("DecisionTree")
    /\ rsi_oversold \in OversoldSet
    /\ portfolio_value = INITIAL_CAPITAL
    /\ data = [Close |-> << >>]
    /\ ticker = "-"
    /\ signals = << >>
    /\ idx = 1
    /\ current_position = None
    /\ trades = << >>
    /\ metrics = None
    /\ pc = "idle"
    /\ calls = 0
    /\ capital_at_call = INITIAL_CAPITAL
    /\ fresh = NewRun

\* backtest is entered: strategy.py 52-55
Backtest ==
    /\ pc = "idle"
    /\ calls < MaxCalls
    /\ \E close \in Inputs :
         LET d == add_technical_indicators(close)
         IN  /\ data' = d
             /\ signals' = generate_signals(d, rsi_oversold)
    /\ ticker' = TickerOf(calls)
    /\ calls' = calls + 1
    /\ trades' = << >>
    /\ current_position' = None
    /\ idx' = 1
    /\ capital_at_call' = portfolio_value
    /\ fresh' = NewRun
    /\ pc' = "loop"
    /\ UNCHANGED <<predictorVars, systemVars>>
    /\ UNCHANGED <<rsi_oversold, portfolio_value, metrics>>

Run == [position |-> current_position, trades |-> trades, capital |-> portfolio_value]

\* one iteration of the loop, strategy.py 57-82
Iterate ==
    LET r == LoopBody(Run, signals[idx], ticker)
    IN  /\ current_position' = r.position
        /\ trades' = r.trades
        /\ portfolio_value' = r.capital
        /\ fresh' = LoopBody(fresh, signals[idx], ticker)
        /\ idx' = idx + 1
        /\ UNCHANGED <<predictorVars, systemVars>>
        /\ UNCHANGED <<rsi_oversold, data, ticker, signals, metrics, pc, calls, capital_at_call>>

InLoop == pc = "loop" /\ idx <= Len(signals)

\* strategy.py 58-64
OpenPosition ==
    /\ InLoop
    /\ signals[idx].signal = "BUY" /\ current_position = None
    /\ Iterate

\* strategy.py 66-82
ClosePosition ==
    /\ InLoop
    /\ signals[idx].signal = "SELL" /\ current_position # None
    /\ Iterate

\* neither branch is taken: BUY while a position is open
IgnoreBuy ==
    /\ InLoop
    /\ signals[idx].signal = "BUY" /\ current_position # None
    /\ Iterate

\* neither branch is taken: SELL while no position is open
IgnoreSell ==
    /\ InLoop
    /\ signals[idx].signal = "SELL" /\ current_position = None
    /\ Iterate

\* variant: a position still open after the last signal is closed at the
\* last bar and credited
Return_AutoClose ==
    /\ pc = "loop"
    /\ idx > Len(signals)
    /\ pc' = "returned"
    /\ LET last == [date |-> NumBars(data.Close) - 1, price |-> data.Close[NumBars(data.Close) - 1]]
       IN  IF current_position = None
           THEN UNCHANGED <<trades, portfolio_value, current_position>>
           ELSE /\ trades' = Append(trades, ClosedTrade(last, ticker, current_position))
                /\ portfolio_value' = portfolio_value + Pnl(last, current_position)
                /\ current_position' = None
    /\ UNCHANGED <<predictorVars, systemVars>>
    /\ UNCHANGED <<rsi_oversold, data, ticker, signals, idx, metrics, calls,
                   capital_at_call, fresh>>

\* strategy.py 84-85
Return ==
    /\ pc = "loop"
    /\ idx > Len(signals)
    /\ pc' = "returned"
    /\ UNCHANGED <<predictorVars, systemVars>>
    /\ UNCHANGED <<rsi_oversold, portfolio_value, data, ticker, signals, idx,
                   current_position, trades, metrics, calls, capital_at_call, fresh>>

\* the caller reduces the returned trades, test_system.py 38-39
CalculateMetrics ==
    /\ pc = "returned"
    /\ metrics' = calculate_metrics(trades)
    /\ pc' = "measured"
    /\ UNCHANGED <<predictorVars, systemVars>>
    /\ UNCHANGED <<rsi_oversold, portfolio_value, data, ticker, signals, idx,
                   current_position, trades, calls, capital_at_call, fresh>>

\* the caller goes on to its next symbol; the locals of the call are gone
NextTicker ==
    /\ pc = "measured"
    /\ pc' = "idle"
    /\ data' = [Close |-> << >>]
    /\ ticker' = "-"
    /\ signals' = << >>
    /\ idx' = 1
    /\ current_position' = None
    /\ trades' = << >>
    /\ metrics' = None
    /\ capital_at_call' = portfolio_value
    /\ fresh' = NewRun
    /\ UNCHANGED <<predictorVars, systemVars>>
    /\ UNCHANGED <<rsi_oversold, portfolio_value, calls>>

\* run_strategy_analysis skips a table of fewer than 100 bars, main.py 83-85
SkipTicker ==
    /\ pc = "idle"
    /\ calls < MaxCalls
    /\ \E close \in Inputs : NumBars(close) < MIN_BARS
    /\ calls' = calls + 1
    /\ UNCHANGED <<predictorVars, systemVars>>
    /\ UNCHANGED <<rsi_oversold, portfolio_value, data, ticker, signals, idx,
                   current_position, trades, metrics, pc, capital_at_call, fresh>>

Next ==
    \/ Backtest
    \/ OpenPosition
    \/ ClosePosition
    \/ IgnoreBuy
    \/ IgnoreSell
    \/ Return
    \/ CalculateMetrics
    \/ NextTicker
    \/ SkipTicker

Spec == Init /\ [][Next]_vars

\* calculate_metrics called on a ledger, strategy.py 87
InitMetrics ==
    /\ NoSystem
    /\ NewPredictor("DecisionTree")
    /\ rsi_oversold \in OversoldSet
    /\ portfolio_value = INITIAL_CAPITAL
    /\ data = [Close |-> << >>]
    /\ ticker = "T1"
    /\ signals = << >>
    /\ idx = 1
    /\ current_position = None
    /\ trades \in Ledgers
    /\ metrics = None
    /\ pc = "returned"
    /\ calls = 1
    /\ capital_at_call = INITIAL_CAPITAL
    /\ fresh = NewRun

NextMetrics == CalculateMetrics

SpecMetrics == InitMetrics /\ [][NextMetrics]_vars

MaxMLCalls == 2

\* a predictor of any of the three kinds, ml_model.py 14-19
InitML ==
    /\ NoSystem
    /\ rsi_oversold = 30
    /\ portfolio_value = INITIAL_CAPITAL
    /\ data = [Close |-> << >>]
    /\ ticker = "-"
    /\ signals = << >>
    /\ idx = 1
    /\ current_position = None
    /\ trades = << >>
    /\ metrics = None
    /\ pc = "idle"
    /\ calls = 0
    /\ capital_at_call = INITIAL_CAPITAL
    /\ fresh = NewRun
    /\ \E kind \in ModelTypes : NewPredictor(kind)

Self == [model_type |-> model_type, model |-> model, scaler |-> scaler, accuracy |-> accuracy]

Usable(k) == Cardinality(CleanData[k]) >= MIN_TRAINING_ROWS

\* a call of train_model on table k
Train(k, outcome) ==
    \E r \in {train_model(Self, k, outcome)} :
        /\ ml_calls < MaxMLCalls
        /\ model' = r.self.model
        /\ scaler' = r.self.scaler
        /\ accuracy' = r.self.accuracy
        /\ ml_op' = "train"
        /\ ml_data' = k
        /\ ml_ret' = r.ret
        /\ ml_calls' = ml_calls + 1
        /\ UNCHANGED <<model_type, strategyVars, systemVars>>

\* ml_model.py 44-46
TrainInsufficient == \E k \in TableIds : ~Usable(k) /\ Train(k, "ok")

\* train_test_split raises, ml_model.py 51-53 and 83-85
TrainSplitRaises == \E k \in TableIds : Usable(k) /\ Train(k, "split_raises")

\* fit_transform raises, ml_model.py 55 and 83-85
TrainScaleRaises == \E k \in TableIds : Usable(k) /\ Train(k, "scale_raises")

\* fit raises, ml_model.py 70/73 and 83-85
TrainFitRaises == \E k \in TableIds : Usable(k) /\ Train(k, "fit_raises")

\* ml_model.py 81
TrainOk == \E k \in TableIds : Usable(k) /\ Train(k, "ok")

\* a call of predict on table k
Predict(k) ==
    /\ ml_calls < MaxMLCalls
    /\ ml_op' = "predict"
    /\ ml_data' = k
    /\ ml_ret' = predict(Self, k)
    /\ ml_calls' = ml_calls + 1
    /\ UNCHANGED <<model_type, model, scaler, accuracy, strategyVars, systemVars>>

LatestRowComplete(k) == DropNa(Prepared[k], {LastRow(Prepared[k])}, feature_columns) # {}

\* ml_model.py 89-91
PredictNotTrained == \E k \in TableIds : model = None /\ Predict(k)

\* ml_model.py 96-98
PredictNoValidRow ==
    \E k \in TableIds : model # None /\ ~LatestRowComplete(k) /\ Predict(k)

\* the classifier or the scaler raises, ml_model.py 100-106 and 115-117
PredictRaises ==
    \E k \in TableIds :
        model # None /\ LatestRowComplete(k) /\ ~CanPredict(Self) /\ Predict(k)

\* ml_model.py 108-113
PredictOk ==
    \E k \in TableIds :
        model # None /\ LatestRowComplete(k) /\ CanPredict(Self) /\ Predict(k)

NextML ==
    \/ TrainInsufficient
    \/ TrainSplitRaises
    \/ TrainScaleRaises
    \/ TrainFitRaises
    \/ TrainOk
    \/ PredictNotTrained
    \/ PredictNoValidRow
    \/ PredictRaises
    \/ PredictOk

SpecML == InitML /\ [][NextML]_vars

\* the system as the handlers of main.py see it
System ==
    [all_trades |-> all_trades, all_signals |-> all_signals,
     ml_predictions |-> ml_predictions, last_fit |-> last_fit]

InitSystem ==
    /\ NewPredictor("DecisionTree")
    /\ rsi_oversold = 30
    /\ portfolio_value = INITIAL_CAPITAL
    /\ data = [Close |-> << >>]
    /\ ticker = "-"
    /\ signals = << >>
    /\ idx = 1
    /\ current_position = None
    /\ trades = << >>
    /\ metrics = None
    /\ pc = "idle"
    /\ calls = 0
    /\ capital_at_call = INITIAL_CAPITAL
    /\ fresh = NewRun
    /\ \E stock \in [Symbols -> FrameKinds], tg \in TelegramEnvs, gs \in SheetsEnvs :
          NewSystem(stock, tg, gs)

\* what a call leaves behind: r.self is the system after it, r.out its outcome
CallOutcome(op, r) ==
    /\ sys_op' = op
    /\ all_trades' = r.self.all_trades
    /\ all_signals' = r.self.all_signals
    /\ ml_predictions' = r.self.ml_predictions
    /\ last_fit' = r.self.last_fit
    /\ sys_raised' = r.out.raised
    /\ sys_ret' = r.out.ret
    /\ sys_log' = r.out.log
    /\ UNCHANGED <<tg_env, gs_env, sheets_logger, strategyVars, predictorVars>>

\* a call on the system with the frames it already has
SystemCall(op, r) == CallOutcome(op, r) /\ UNCHANGED stock_data

\* a call on a sink
SinkCall(op, out) == SystemCall(op, [self |-> System, out |-> out])

RunStrategyAnalysis ==
    \E r \in {run_strategy_analysis(System, stock_data, tg_env)} :
        SystemCall("run_strategy_analysis", r)

RunMLAnalysis ==
    \E r \in {run_ml_analysis(System, stock_data, tg_env)} :
        SystemCall("run_ml_analysis", r)

CalculateAndLogMetrics ==
    \E out \in {calculate_and_log_metrics(System, tg_env, gs_env)} :
        SinkCall("calculate_and_log_metrics", out)

RunFullAnalysis ==
    \E r \in {run_full_analysis(System, stock_data, tg_env, gs_env)} :
        SystemCall("run_full_analysis", r)

SendMessage == SinkCall("send_message", send_message(tg_env, "message", None))

LogTrades == SinkCall("log_trades", log_trades(gs_env, all_trades))

LogSignals == SinkCall("log_signals", log_signals(gs_env, all_signals))

LogSummary ==
    SinkCall("log_summary", log_summary(gs_env, calculate_metrics(all_trades), MLMetrics(System)))

LogMLPredictions == SinkCall("log_ml_predictions", log_ml_predictions(gs_env, ml_predictions))

NextSystem ==
    \/ RunStrategyAnalysis
    \/ RunMLAnalysis
    \/ CalculateAndLogMetrics
    \/ RunFullAnalysis
    \/ SendMessage
    \/ LogTrades
    \/ LogSignals
    \/ LogSummary
    \/ LogMLPredictions

SpecSystem == InitSystem /\ [][NextSystem]_vars

\* the system before its first scheduled run: nothing has been fetched
InitSchedule ==
    /\ NewPredictor("DecisionTree")
    /\ rsi_oversold = 30
    /\ portfolio_value = INITIAL_CAPITAL
    /\ data = [Close |-> << >>]
    /\ ticker = "-"
    /\ signals = << >>
    /\ idx = 1
    /\ current_position = None
    /\ trades = << >>
    /\ metrics = None
    /\ pc = "idle"
    /\ calls = 0
    /\ capital_at_call = INITIAL_CAPITAL
    /\ fresh = NewRun
    /\ \E tg \in TelegramEnvs : NewSystem([s \in Symbols |-> "none"], tg, "ok")

\* schedule_analysis, main.py 249-260: run_full_analysis is run again and
\* again on the same system, and each run fetches the frames anew
ScheduledRun ==
    \E stock \in [Symbols -> FrameKinds] :
        \E r \in {run_full_analysis(System, stock, tg_env, gs_env)} :
            /\ stock_data' = stock
            /\ CallOutcome("run_full_analysis", r)

NextSchedule == ScheduledRun

SpecSchedule == InitSchedule /\ [][NextSchedule]_vars

----------------------------------------------------------------------------
(* Properties *)

Kind(j) == signals[j].signal

SignalsReady == pc = "loop" /\ idx = 1

\* the signal just consumed by the loop
Consumed == signals[idx - 1]

\* C1: a BUY processed while a position is open, and a SELL processed while
\* no position is open, leave the open position, the trade list and the
\* running capital unchanged (and the SELL opens nothing).
C1_IgnoredTriggersAreNoOps ==
    [][ (/\ InLoop
         /\ idx' = idx + 1
         /\ \/ Kind(idx) = "BUY" /\ current_position # None
            \/ Kind(idx) = "SELL" /\ current_position = None)
        => /\ current_position' = current_position
           /\ trades' = trades
           /\ portfolio_value' = portfolio_value ]_vars

\* a BUY has just been ignored (the open position is older than it) after an
\* earlier SELL was ignored too (no trade exits at its bar)
C1_Witness ==
    /\ pc = "loop" /\ idx > 1
    /\ Consumed.signal = "BUY"
    /\ current_position # None
    /\ current_position.entry_date < Consumed.date
    /\ \E j \in 1..(idx - 1) :
          /\ Kind(j) = "SELL"
          /\ \A k \in 1..Len(trades) : trades[k].exit_date # signals[j].date

BuyDates == {signals[j].date : j \in {j \in 1..Len(signals) : Kind(j) = "BUY"}}

SellDates == {signals[j].date : j \in {j \in 1..Len(signals) : Kind(j) = "SELL"}}

ExitBefore(k) == IF k = 1 THEN -1 ELSE trades[k - 1].exit_date

\* C2: the returned trades are exactly the pairs (first BUY seen while flat,
\* first SELL after it), in order; each entry is strictly before its exit and
\* consecutive trades do not overlap; [BUY, BUY, SELL] and [SELL, BUY, SELL]
\* each give one trade.
C2_TradesAreBuySellPairs ==
    pc = "returned" =>
        /\ \A k \in 1..Len(trades) :
              /\ trades[k].entry_date \in BuyDates
              /\ trades[k].entry_date > ExitBefore(k)
              /\ \A b \in BuyDates : ~(ExitBefore(k) < b /\ b < trades[k].entry_date)
              /\ trades[k].exit_date \in SellDates
              /\ trades[k].exit_date > trades[k].entry_date
              /\ \A x \in SellDates : ~(trades[k].entry_date < x /\ x < trades[k].exit_date)
        /\ \A b \in BuyDates : \A x \in SellDates :
              ~(ExitBefore(Len(trades) + 1) < b /\ b < x)
        /\ (Len(signals) = 3 /\ Kind(1) = "BUY" /\ Kind(2) = "BUY" /\ Kind(3) = "SELL")
              => Len(trades) = 1 /\ trades[1].entry_date = signals[1].date
        /\ (Len(signals) = 3 /\ Kind(1) = "SELL" /\ Kind(2) = "BUY" /\ Kind(3) = "SELL")
              => Len(trades) = 1 /\ trades[1].entry_date = signals[2].date

\* backtest has returned two trades from a run in which a BUY and a SELL
\* were ignored
C2_Witness ==
    /\ pc = "returned"
    /\ Len(trades) = 2
    /\ \E b \in BuyDates : \A k \in 1..Len(trades) : trades[k].entry_date # b
    /\ \E x \in SellDates : \A k \in 1..Len(trades) : trades[k].exit_date # x

\* C3: the trades backtest returns for a symbol are the same whether or not
\* other symbols were backtested earlier through the same instance.
C3_IndependentOfEarlierSymbols ==
    pc = "returned" => trades = fresh.trades

\* C4: when the quantity computation yields 0 no position is opened, so no
\* trade with quantity <= 0 is ever appended.
C4_NoEmptyPosition ==
    /\ current_position # None => current_position.quantity > 0
    /\ \A k \in 1..Len(trades) : trades[k].quantity > 0

\* C5: after a call to backtest the running capital minus its value before
\* the call equals the sum of pnl over the returned trades, which is the
\* total_pnl that calculate_metrics reports.
C5_CapitalDeltaIsTotalPnl ==
    /\ pc \in {"returned", "measured"} =>
          portfolio_value - capital_at_call = SumPnl(trades)
    /\ pc = "measured" =>
          metrics.total_pnl = portfolio_value - capital_at_call

\* metrics were computed for a second call that closed trades at a loss
\* after an earlier call had changed the capital
C5_Witness ==
    /\ pc = "measured"
    /\ Len(trades) >= 1
    /\ metrics.total_pnl < 0
    /\ capital_at_call # INITIAL_CAPITAL

LastTrade == trades'[Len(trades')]

\* C6: a Trade takes entry_date and entry_price from the BUY signal that
\* opened the position, exit_date and exit_price from the SELL signal that
\* closed it, its quantity is the one fixed at entry, pnl = (exit_price -
\* entry_price) * quantity and return_pct = (exit_price - entry_price) /
\* entry_price * 100.
C6_TradeFields ==
    [][ /\ (InLoop /\ current_position = None /\ current_position' # None)
           => /\ Kind(idx) = "BUY"
              /\ current_position'.entry_date = signals[idx].date
              /\ current_position'.entry_price = signals[idx].price
        /\ (InLoop /\ Len(trades') = Len(trades) + 1)
           => /\ Kind(idx) = "SELL"
              /\ current_position # None
              /\ LastTrade.entry_date = current_position.entry_date
              /\ LastTrade.entry_price = current_position.entry_price
              /\ LastTrade.quantity = current_position.quantity
              /\ LastTrade.exit_date = signals[idx].date
              /\ LastTrade.exit_price = signals[idx].price
              /\ LastTrade.pnl =
                    (LastTrade.exit_price - LastTrade.entry_price) * LastTrade.quantity
              /\ LastTrade.return_pct.d # 0
              /\ LastTrade.return_pct.n * LastTrade.entry_price =
                    (LastTrade.exit_price - LastTrade.entry_price) * 100 * LastTrade.return_pct.d
              /\ SubSeq(trades', 1, Len(trades)) = trades ]_vars

\* a position opened with a positive quantity has just been closed at a loss
C6_Witness ==
    /\ pc = "loop" /\ idx > 1
    /\ Consumed.signal = "SELL"
    /\ Len(trades) >= 1
    /\ trades[Len(trades)].exit_date = Consumed.date
    /\ trades[Len(trades)].quantity > 0
    /\ trades[Len(trades)].pnl < 0

BuyAt(i) == \E j \in 1..Len(signals) : signals[j].date = i /\ Kind(j) = "BUY"

SellAt(i) == \E j \in 1..Len(signals) : signals[j].date = i /\ Kind(j) = "SELL"

Bars == 1..(NumBars(data.Close) - 1)

\* x < y, x > y on non-null fractions
Below(x, y) == x.n * y.d < y.n * x.d

NotNull(x) == x.d # 0

RsiAbove70(i) == NotNull(data.RSI[i]) /\ Below(Num(70), data.RSI[i])

\* C7: for every bar i >= 1 a BUY is emitted at i iff RSI[i], MA20[i] and
\* MA50[i] are non-null, RSI[i] < oversold threshold, MA20[i] > MA50[i] and
\* MA20[i-1] <= MA50[i-1] (false when an average at i-1 is null); the signal
\* carries date, close, RSI, MA20 and MA50 of bar i.
C7_BuyRule ==
    SignalsReady =>
        /\ \A i \in Bars :
              BuyAt(i) <=>
                 /\ NotNull(data.RSI[i]) /\ NotNull(data.MA20[i]) /\ NotNull(data.MA50[i])
                 /\ Below(data.RSI[i], Num(rsi_oversold))
                 /\ Below(data.MA50[i], data.MA20[i])
                 /\ NotNull(data.MA20[i-1]) /\ NotNull(data.MA50[i-1])
                 /\ ~Below(data.MA50[i-1], data.MA20[i-1])
        /\ \A j \in 1..Len(signals) :
              Kind(j) = "BUY" =>
                 /\ signals[j].date \in Bars
                 /\ signals[j].price = data.Close[signals[j].date]
                 /\ signals[j].rsi = data.RSI[signals[j].date]
                 /\ signals[j].ma20 = data.MA20[signals[j].date]
                 /\ signals[j].ma50 = data.MA50[signals[j].date]

\* generate_signals has emitted a BUY, and has emitted none at a bar where
\* the short average is above the long one without having crossed it there
C7_Witness ==
    /\ SignalsReady
    /\ \E i \in Bars : BuyAt(i)
    /\ \E i \in Bars :
          /\ ~BuyAt(i)
          /\ NotNull(data.RSI[i]) /\ Below(data.RSI[i], Num(rsi_oversold))
          /\ NotNull(data.MA50[i-1])
          /\ Below(data.MA50[i], data.MA20[i])
          /\ Below(data.MA50[i-1], data.MA20[i-1])

\* C8 as stated: for every bar i >= 1 and every configured oversold
\* threshold, a SELL is emitted at i iff RSI[i] is non-null and above 70.
C8_SellRuleAnyThreshold ==
    SignalsReady => \A i \in Bars : SellAt(i) <=> RsiAbove70(i)

\* C8 amended: a SELL is emitted at i iff RSI[i] is non-null and above 70 and
\* no BUY is emitted at i; for every oversold threshold of at most 70 this is
\* iff RSI[i] is non-null and above 70, whatever the moving averages are.
C8_SellRule ==
    SignalsReady =>
        /\ \A i \in Bars : SellAt(i) <=> (RsiAbove70(i) /\ ~BuyAt(i))
        /\ rsi_oversold <= RSI_OVERBOUGHT => \A i \in Bars : SellAt(i) <=> RsiAbove70(i)

\* SELLs were emitted both where the long average is still null and where the
\* short average is below the long one
C8_Witness ==
    /\ SignalsReady
    /\ rsi_oversold <= RSI_OVERBOUGHT
    /\ \E i \in Bars : SellAt(i) /\ ~NotNull(data.MA50[i])
    /\ \E i \in Bars : SellAt(i) /\ NotNull(data.MA50[i]) /\ Below(data.MA20[i], data.MA50[i])

OnUptrend == pc # "idle" /\ data.Close = UptrendSeries

\* C9 as stated: on the closes 100, 101, ..., 159 generate_signals returns an
\* empty list and backtest returns no trades.
C9_UptrendNoSignals ==
    OnUptrend => signals = << >> /\ trades = << >>

\* C9 amended: on the closes 100, 101, ..., 159 generate_signals returns no
\* BUY; it returns a SELL at every bar from 13 to 59, where RSI is 100, and
\* backtest returns no trades.
C9_UptrendOnlySells ==
    OnUptrend =>
        /\ Len(signals) = 47
        /\ \A j \in 1..Len(signals) :
              /\ Kind(j) = "SELL"
              /\ signals[j].date = 12 + j
              /\ signals[j].rsi = Num(100)
        /\ trades = << >>
        /\ current_position = None

\* backtest has returned from the uptrend series
C9_Witness == OnUptrend /\ pc = "returned" /\ idx = Len(signals) + 1

IndicatorColumns ==
    {"RSI", "MACD", "MACD_Signal", "MACD_Histogram", "MA20", "MA50",
     "BB_Upper", "BB_Middle", "BB_Lower"}

ShortTable == pc # "idle" /\ NumBars(data.Close) < MA_LONG_WINDOW

\* C10 as stated: for a series shorter than 50 bars every indicator column
\* is null at every bar.
C10_ShortSeriesAllNull ==
    ShortTable =>
        \A c \in IndicatorColumns : \A i \in DOMAIN data.Close : isna(data[c][i])

\* C10 amended: for a series shorter than 50 bars MA50 is null at every bar;
\* RSI is null at every bar below index 13, MA20 and the Bollinger columns
\* are null exactly at the bars below index 19, and the MACD columns are
\* null at no bar.
C10_ShortSeriesNulls ==
    ShortTable =>
        \A i \in DOMAIN data.Close :
            /\ isna(data.MA50[i])
            /\ i < 13 => isna(data.RSI[i])
            /\ \A c \in {"MA20", "BB_Upper", "BB_Middle", "BB_Lower"} :
                  isna(data[c][i]) <=> i < 19
            /\ \A c \in {"MACD", "MACD_Signal", "MACD_Histogram"} : ~isna(data[c][i])

\* the indicators of a 49-bar series were computed
C10_Witness ==
    /\ pc = "loop"
    /\ NumBars(data.Close) = MA_LONG_WINDOW - 1
    /\ \A i \in DOMAIN data.Close : isna(data.MA50[i])
    /\ ~isna(data.RSI[13]) /\ ~isna(data.MA20[19])

----------------------------------------------------------------------------
(* Metrics Aggregator *)

Measured == pc = "measured"

PnlOf(ts) == [k \in 1..Len(ts) |-> ts[k].pnl]

\* the fields of the Metrics data model
MetricsFields ==
    {"total_trades", "winning_trades", "losing_trades", "win_rate",
     "total_pnl", "avg_return", "max_drawdown"}

\* C11: calculate_metrics on an empty trade list returns a Metrics record in
\* which every field of the Metrics data model is present and equal to 0.
C11_EmptyLedgerAllFieldsZero ==
    (Measured /\ trades = << >>) =>
        /\ DOMAIN metrics = MetricsFields
        /\ metrics.total_trades = 0
        /\ metrics.winning_trades = 0
        /\ metrics.losing_trades = 0
        /\ metrics.win_rate = Num(0)
        /\ metrics.total_pnl = 0
        /\ metrics.avg_return = Num(0)
        /\ metrics.max_drawdown = Num(0)

\* equality of two floats as numbers; NaN equals nothing
FloatEq(a, b) ==
    IF a.d = 0 \/ b.d = 0 THEN a = b /\ ~IsNaN(a)
    ELSE a.n * b.d = b.n * a.d

\* the drawdown of point k when a running peak of 0 is taken to give 0%
GuardedDrawdown(ts, k) == IF Peak(ts, k) = 0 THEN Num(0) ELSE Drawdown(ts, k)

\* C12: for every non-empty trade list max_drawdown is a defined number, the
\* minimum over the points of (cumulative pnl - running peak) / running peak
\* * 100, where a point whose running peak is 0 contributes 0%.
C12_MaxDrawdownDefined ==
    (Measured /\ trades # << >>) =>
        /\ IsFinite(metrics.max_drawdown)
        /\ FloatEq(metrics.max_drawdown,
                   FloatMin([k \in 1..Len(trades) |-> GuardedDrawdown(trades, k)]))

RECURSIVE SumFrom(_, _)
SumFrom(xs, k) == IF k > Len(xs) THEN 0 ELSE xs[k] + SumFrom(xs, k + 1)

\* x rounded to two decimals, in hundredths (x finite and non-negative)
Hundredths(x) == (2 * 100 * x.n + x.d) \div (2 * x.d)

\* C13: for every non-empty trade list total_trades is the number of trades,
\* winning_trades the number of trades with pnl > 0, losing_trades the rest
\* (a break-even trade counts as losing, winning + losing = total), win_rate
\* is winning / total * 100 and total_pnl the sum of pnl; pnl [100, -50, 200]
\* gives winning 2, losing 1, total_pnl 250 and win_rate 66.67%.
C13_CountsWinRateTotalPnl ==
    (Measured /\ trades # << >>) =>
        LET pnl == PnlOf(trades)
            n == Len(trades)
            wins == Cardinality({k \in 1..n : pnl[k] > 0})
        IN  /\ metrics.total_trades = n
            /\ metrics.winning_trades = wins
            /\ metrics.losing_trades = n - wins
            /\ metrics.losing_trades = Cardinality({k \in 1..n : pnl[k] <= 0})
            /\ metrics.winning_trades + metrics.losing_trades = metrics.total_trades
            /\ FloatEq(metrics.win_rate, Frac(wins * 100, n))
            /\ metrics.total_pnl = SumFrom(pnl, 1)
            /\ pnl = <<100, -50, 200>> =>
                   /\ metrics.winning_trades = 2
                   /\ metrics.losing_trades = 1
                   /\ metrics.total_pnl = 250
                   /\ Hundredths(metrics.win_rate) = 6667

\* the ledger with pnl [100, -50, 200] has been measured
C13_Witness == Measured /\ PnlOf(trades) = <<100, -50, 200>>

----------------------------------------------------------------------------
(* Feature/Label Pipeline and Classifier Wrapper *)

\* train_model has just returned True
Trained == ml_op = "train" /\ ml_ret = TRUE

\* the table of the last call, with its feature and label columns
Given == Prepared[ml_data]

\* C14: the last bar of the series is never among the rows train_model fits
\* or scores on: its label is null and the null-drop removes the row before
\* the split.
C14_LastBarNotUsed ==
    Trained =>
        /\ IsNaN(Given.Target[LastRow(Given)])
        /\ LastRow(Given) \notin DOMAIN model.X
        /\ LastRow(Given) \notin DOMAIN model.y

\* the tables a and b both have bar u, with the same close and volume
SameBar(a, b, u) ==
    /\ u \in DOMAIN a.Close
    /\ u \in DOMAIN b.Close
    /\ a.Close[u] = b.Close[u]
    /\ a.Volume[u] = b.Volume[u]

\* the number of leading bars on which two tables agree
CommonBars ==
    [j \in TableIds |-> [k \in TableIds |->
        CHOOSE n \in 0..NumBars(MLTables[j].Close) :
            /\ \A u \in 0..(n - 1) : SameBar(MLTables[j], MLTables[k], u)
            /\ ~SameBar(MLTables[j], MLTables[k], n)]]

\* tables j and k agree on the bars 0..t
AgreeUpTo(j, k, t) == t < CommonBars[j][k]

\* the rows of the given table that the last call fitted, scored or
\* predicted on
UsedRows ==
    IF ml_op = "train" THEN CleanData[ml_data]
    ELSE IF ml_op = "predict" THEN {LastRow(Given)}
    ELSE {}

\* C15: for every row t used for training or prediction, the model inputs
\* of row t are the same in every table that agrees with the given one on the
\* bars up to t; Next_Day_Return and Target are not model inputs, and the
\* label of row t is the same in every table that agrees on the bars up to
\* t + 1.
C15_NoLeakage ==
    /\ Columns(feature_columns) \cap {"Next_Day_Return", "Target"} = {}
    /\ \A t \in UsedRows : \A k \in TableIds :
          /\ AgreeUpTo(ml_data, k, t)
                => RowOf(Given, t, feature_columns) = RowOf(Prepared[k], t, feature_columns)
          /\ AgreeUpTo(ml_data, k, t + 1)
                => Given.Target[t] = Prepared[k].Target[t]

\* a classifier was fitted on a row t of a table that has a twin: the twin
\* agrees on the bars up to t, not on bar t + 1, and gives row t another label
C15_Witness ==
    /\ Trained
    /\ \E t \in DOMAIN model.X : \E k \in TableIds :
          /\ AgreeUpTo(ml_data, k, t)
          /\ ~SameBar(MLTables[ml_data], MLTables[k], t + 1)
          /\ Given.Target[t] # Prepared[k].Target[t]

\* this step is a call of train_model that returns False
TrainFailed == ml_calls' = ml_calls + 1 /\ ml_op' = "train" /\ ml_ret' = FALSE

\* C16: whenever train_model fails on a predictor that holds a trained
\* model, the model, the scaler and the accuracy are as they were before the
\* call, and predict on any table returns what it returned before the
\* failed call.
C16_FailedTrainKeepsModel ==
    [][ (model # None /\ model.fitted /\ TrainFailed) =>
            /\ model' = model
            /\ scaler' = scaler
            /\ accuracy' = accuracy
            /\ \A k \in TableIds : predict(Self, k)' = predict(Self, k) ]_vars

\* this step is a call of train_model
TrainCall == ml_calls' = ml_calls + 1 /\ ml_op' = "train"

\* the rows of table k without a null feature or a null label
RowsLeft ==
    [k \in TableIds |->
        DropNa(Prepared[k], DOMAIN Prepared[k].Close, feature_columns \o <<"Target">>)]

UsableRows(k) == RowsLeft[k]

\* C17: train_model returns True, with a classifier fitted on the usable
\* rows, only if at least 50 rows remain after dropping every row with a
\* null feature or a null label; with fewer than 50 usable rows it returns
\* False and fits neither a model nor a scaler.
C17_FiftyUsableRows ==
    [][ TrainCall =>
            /\ ml_ret' = TRUE =>
                  /\ Cardinality(UsableRows(ml_data')) >= 50
                  /\ model'.fitted
                  /\ DOMAIN model'.X = UsableRows(ml_data')
            /\ Cardinality(UsableRows(ml_data')) < 50 =>
                  /\ ml_ret' = FALSE
                  /\ model' = model
                  /\ scaler' = scaler
                  /\ accuracy' = accuracy ]_vars

\* train_model has just returned False on a table of 49 usable rows, and the
\* predictor still holds the classifier it fitted on exactly 50 rows
C17_Witness ==
    /\ ml_op = "train"
    /\ ml_ret = FALSE
    /\ Cardinality(UsableRows(ml_data)) = 49
    /\ model # None
    /\ model.fitted
    /\ Cardinality(DOMAIN model.X) = 50

\* this step is a call of predict
PredictCall == ml_calls' = ml_calls + 1 /\ ml_op' = "predict"

\* no classifier has been fitted on this predictor
NotTrained == model = None \/ ~model.fitted

\* the latest row of table k has a null feature
LatestRowHasNull(k) ==
    \E c \in Columns(feature_columns) : IsNaN(Prepared[k][c][LastRow(Prepared[k])])

\* an earlier row of table k has every feature
EarlierRowComplete(k) ==
    \E i \in DOMAIN Prepared[k].Close :
        /\ i < LastRow(Prepared[k])
        /\ \A c \in Columns(feature_columns) : ~IsNaN(Prepared[k][c][i])

\* C18: a call of predict leaves the model, the scaler and the accuracy as
\* they were; it returns None when no model has been trained and when the
\* latest row of the table has a null feature, and a prediction it returns is
\* made from the latest row.
C18_PredictErrorCases ==
    [][ PredictCall =>
            /\ model' = model
            /\ scaler' = scaler
            /\ accuracy' = accuracy
            /\ (NotTrained \/ LatestRowHasNull(ml_data')) => ml_ret' = None
            /\ ml_ret' # None =>
                  ml_ret'.input.row =
                      RowOf(Prepared[ml_data'], LastRow(Prepared[ml_data']), feature_columns)
      ]_vars

\* predict has returned None on a fitted predictor for a table whose latest
\* row has a null feature while an earlier row is complete
C18_Witness ==
    /\ ml_op = "predict"
    /\ ml_ret = None
    /\ model # None
    /\ CanPredict(Self)
    /\ LatestRowHasNull(ml_data)
    /\ EarlierRowComplete(ml_data)

\* predict has returned None on a predictor that was never trained, for a
\* table whose latest row is complete
C18_WitnessNotTrained ==
    /\ ml_op = "predict"
    /\ ml_ret = None
    /\ model = None
    /\ ~LatestRowHasNull(ml_data)

Range(seq) == {seq[i] : i \in DOMAIN seq}

\* the logger has the line that opens the processing of symbol s
Processed(event, s) ==
    \E i \in DOMAIN sys_log : sys_log[i].event = event /\ sys_log[i].payload = s

\* C19: after run_strategy_analysis and after run_ml_analysis, every symbol
\* with a frame of 100 rows that does not itself raise has been processed,
\* and its trades, signals and prediction are in what the call returned and
\* in what the system has stored, whatever happened to the other symbols.
C19_PerSymbolIsolation ==
    /\ sys_op = "run_strategy_analysis" =>
          /\ ~sys_raised
          /\ \A s \in Symbols :
                /\ stock_data[s] \in {"quiet", "active"} => Processed("Analyzing", s)
                /\ stock_data[s] = "active" =>
                      /\ Range(SymbolTrades(s)) \subseteq Range(sys_ret[1])
                      /\ Range(SymbolSignals(s)) \subseteq Range(sys_ret[2])
                      /\ Range(SymbolTrades(s)) \subseteq Range(all_trades)
                      /\ Range(SymbolSignals(s)) \subseteq Range(all_signals)
    /\ sys_op = "run_ml_analysis" =>
          /\ ~sys_raised
          /\ \A s \in Symbols :
                /\ stock_data[s] \in {"quiet", "active", "faulty"} => Processed("Training", s)
                /\ stock_data[s] = "active" =>
                      /\ SymbolPrediction(s) \in Range(sys_ret)
                      /\ SymbolPrediction(s) \in Range(ml_predictions)

\* what a call handed over, without whether it was delivered
Events(log) == [i \in DOMAIN log |-> [sink |-> log[i].sink, event |-> log[i].event,
                                        payload |-> log[i].payload]]

\* the entries of the log that were not delivered
Undelivered(sink) == {i \in DOMAIN sys_log : sys_log[i].sink = sink /\ ~sys_log[i].ok}

\* C20: send_message does not raise and returns False when the reply is not
\* 200 or the request fails; log_trades, log_signals, log_summary and
\* log_ml_predictions return normally when the worksheet API raises; and
\* run_full_analysis returns, stores and hands over exactly what it does
\* when every delivery succeeds.
C20_SinkFailuresSwallowed ==
    [][ /\ sys_op' = "send_message" =>
              /\ ~sys_raised'
              /\ tg_env \in {"non200", "network"} => sys_ret' = FALSE
        /\ sys_op' \in {"log_trades", "log_signals", "log_summary", "log_ml_predictions"} =>
              /\ ~sys_raised'
              /\ sys_ret' = None
        /\ sys_op' = "run_full_analysis" =>
              LET delivered == run_full_analysis(System, stock_data, "ok", "ok")
              IN  /\ ~sys_raised'
                  /\ sys_ret' = delivered.out.ret
                  /\ System' = delivered.self
                  /\ Events(sys_log') = Events(delivered.out.log)
      ]_vars

\* run_full_analysis has returned its result with the metrics of its trades
\* although no message reached Telegram and no row reached the spreadsheet
C20_Witness ==
    /\ sys_op = "run_full_analysis"
    /\ tg_env = "network"
    /\ gs_env = "api_raises"
    /\ ~sys_raised
    /\ sys_ret # None
    /\ sys_ret.strategy_metrics # None
    /\ sys_ret.trades # << >>
    /\ Cardinality(Undelivered("telegram")) >= 2
    /\ Cardinality(Undelivered("sheets")) >= 4

\* the columns of a price table as the caller passes it
PassedColumns == {"Close"}

\* C21: once backtest has been called on a table, the table the caller
\* passed in has exactly the columns and values it had before the call; the
\* indicator columns are on a copy only.
C21_CallerTableUnchanged ==
    pc # "idle" => DOMAIN data = PassedColumns

\* a position is open when the loop comes to signal j (j = Len + 1: when the
\* list has ended): a BUY before j with no SELL between the two
OpenBefore(j) ==
    \E b \in 1..(j - 1) :
        /\ Kind(b) = "BUY"
        /\ \A m \in (b + 1)..(j - 1) : Kind(m) # "SELL"

SellsWhileOpen == {j \in 1..Len(signals) : Kind(j) = "SELL" /\ OpenBefore(j)}

\* C22: when backtest has returned, the number of trades is the number of
\* SELL signals processed while a position was open; a position still open
\* at the end of the signal list is kept, has no trade, and the running
\* capital has moved by the pnl of the closed trades only.
C22_OpenPositionNotClosed ==
    pc = "returned" =>
        /\ Len(trades) = Cardinality(SellsWhileOpen)
        /\ OpenBefore(Len(signals) + 1) =>
              /\ current_position # None
              /\ \A k \in 1..Len(trades) : trades[k].entry_date # current_position.entry_date
              /\ portfolio_value = capital_at_call + SumPnl(trades)

\* backtest has returned a closed trade and is left with a later position of
\* at least one share that no trade accounts for
C22_Witness ==
    /\ pc = "returned"
    /\ Len(trades) >= 1
    /\ current_position # None
    /\ current_position.quantity >= 1
    /\ current_position.entry_date > trades[Len(trades)].exit_date

\* C23: the running capital is never negative, and a position opened at a
\* positive price holds floor(running capital / price) shares, counted from
\* the running capital at the moment of the BUY: its cost does not exceed
\* that capital and one more share would.
C23_NoLeverage ==
    /\ portfolio_value >= 0
    /\ (pc \in {"loop", "returned"} /\ current_position # None
            /\ current_position.entry_price > 0) =>
          /\ current_position.quantity >= 0
          /\ current_position.quantity * current_position.entry_price <= portfolio_value
          /\ (current_position.quantity + 1) * current_position.entry_price > portfolio_value

\* a position of at least one share is open that was sized from a running
\* capital other than the starting capital and leaves part of it unspent
C23_Witness ==
    /\ pc = "loop"
    /\ current_position # None
    /\ current_position.quantity >= 1
    /\ portfolio_value # INITIAL_CAPITAL
    /\ current_position.quantity * current_position.entry_price < portfolio_value

\* the BUY condition of strategy.py 21-26 holds at bar i
BuyHolds(i) ==
    /\ NotNull(data.RSI[i]) /\ NotNull(data.MA20[i]) /\ NotNull(data.MA50[i])
    /\ Below(data.RSI[i], Num(rsi_oversold))
    /\ Below(data.MA50[i], data.MA20[i])
    /\ NotNull(data.MA20[i-1]) /\ NotNull(data.MA50[i-1])
    /\ ~Below(data.MA50[i-1], data.MA20[i-1])

\* C24: every signal of generate_signals is at a bar 1..n-1, never at bar 0;
\* the signals are in strictly increasing order of their bars, hence at most
\* one for a bar; and at a bar where the BUY and the SELL condition both
\* hold the signal is the BUY.
C24_OneSignalPerBarInOrder ==
    SignalsReady =>
        /\ \A j \in 1..Len(signals) :
              /\ signals[j].date >= 1
              /\ signals[j].date <= NumBars(data.Close) - 1
        /\ \A j \in 1..(Len(signals) - 1) : signals[j].date < signals[j + 1].date
        /\ \A i \in Bars : (BuyHolds(i) /\ RsiAbove70(i)) => (BuyAt(i) /\ ~SellAt(i))

\* generate_signals has emitted several signals, among them a BUY at a bar
\* where the SELL condition holds as well
C24_Witness ==
    /\ SignalsReady
    /\ Len(signals) >= 3
    /\ \E i \in Bars : BuyHolds(i) /\ RsiAbove70(i) /\ BuyAt(i)

CredentialsMissing == gs_env \in {"no_credentials", "setup_fails"}

\* C25: when the credentials file is missing or the connection setup fails,
\* the sheets sink of the system is a MockGoogleSheetsLogger; the system
\* never holds a GoogleSheetsLogger whose workbook is unset.
C25_MockWhenNoCredentials ==
    /\ CredentialsMissing => sheets_logger.class = "MockGoogleSheetsLogger"
    /\ sheets_logger.class = "GoogleSheetsLogger" => sheets_logger.workbook # None

\* the last call handed this event over (delivered or not)
HandedOver(event) == \E i \in DOMAIN sys_log : sys_log[i].event = event

MetricsAlert ==
    \E i \in DOMAIN sys_log :
        sys_log[i].event = "error_alert" /\ sys_log[i].payload = "Metrics Calculation"

\* C26: when run_full_analysis has gone through its steps and there is no
\* closed trade, its result has the strategy metrics with total_trades = 0,
\* the daily summary was sent, the summary was printed, and no error alert
\* was sent for the metrics step.
C26_NoTradesStillSummarised ==
    (/\ sys_op = "run_full_analysis"
     /\ ~sys_raised
     /\ sys_ret # None
     /\ sys_ret.trades = << >>
     /\ all_trades = << >>) =>
        /\ sys_ret.strategy_metrics # None
        /\ sys_ret.strategy_metrics.total_trades = 0
        /\ HandedOver("daily_summary")
        /\ HandedOver("summary")
        /\ ~MetricsAlert

\* C27: after a run of run_full_analysis that went through its steps, the
\* trades and signals handed to the spreadsheet and the metrics handed to the
\* spreadsheet, to Telegram and to the printed summary are those of the
\* trades and signals this run's strategy analysis returned; when it
\* returned empty lists, no trade and no signal is logged.
C27_SinksGetThisRunsResults ==
    (sys_op = "run_full_analysis" /\ ~sys_raised /\ sys_ret # None) =>
        \A i \in DOMAIN sys_log :
            /\ sys_log[i].event = "Trades" => sys_log[i].payload = sys_ret.trades
            /\ sys_log[i].event = "Signals" => sys_log[i].payload = sys_ret.signals
            /\ sys_log[i].event = "Summary" =>
                  sys_log[i].payload[1] = calculate_metrics(sys_ret.trades)
            /\ sys_log[i].event = "daily_summary" =>
                  sys_log[i].payload = calculate_metrics(sys_ret.trades)
            /\ sys_log[i].event = "summary" =>
                  sys_log[i].payload[1] = calculate_metrics(sys_ret.trades)

\* the averaging windows a TradingStrategy may be constructed with
MaWindows == {<<20, 50>>, <<5, 10>>, <<10, 30>>}

Instance(w) == [rsi_oversold |-> rsi_oversold, ma_short |-> w[1], ma_long |-> w[2]]

\* C28: for the series handed to backtest, instances that differ only in
\* ma_short and ma_long produce the same signal list, the one of this
\* instance.
C28_WindowsOfInstanceIgnored ==
    SignalsReady =>
        \A w \in MaWindows : strategy_signals(Instance(w), data.Close) = signals

\* the signal list has a BUY, which rests on a crossover of the two averages
C28_Witness ==
    /\ SignalsReady
    /\ \E j \in 1..Len(signals) : Kind(j) = "BUY"

\* C29: no signal of either kind is at a bar below 13, no BUY is at a bar
\* below 50, and a call on a series of at most 50 bars has no BUY among its
\* signals and records no trade.
C29_NullIndicatorsGate ==
    pc \in {"loop", "returned"} =>
        /\ \A j \in 1..Len(signals) :
              /\ signals[j].date >= 13
              /\ Kind(j) = "BUY" => signals[j].date >= 50
        /\ NumBars(data.Close) <= 50 =>
              /\ \A j \in 1..Len(signals) : Kind(j) # "BUY"
              /\ trades = << >>

\* a series of exactly 50 bars has been backtested: it has signals from bar
\* 13 on, none of them a BUY
C29_Witness ==
    /\ pc = "returned"
    /\ NumBars(data.Close) = 50
    /\ Len(signals) >= 1
    /\ signals[1].date < 50

\* a BUY at bar 50, the first bar where one is possible
C29_WitnessFirstBuy ==
    /\ SignalsReady
    /\ \E j \in 1..Len(signals) : Kind(j) = "BUY" /\ signals[j].date = 50

\* C30: for a non-empty trade list whose trades all have pnl < 0,
\* max_drawdown is 0; and for a non-empty trade list none of whose running
\* peaks of cumulative pnl is 0, max_drawdown is a number that is not
\* positive.
C30_LosingLedgerDrawdownZero ==
    (Measured /\ trades # << >>) =>
        LET pnl == PnlOf(trades)
            n == Len(trades)
        IN  /\ (\A k \in 1..n : pnl[k] < 0) =>
                   FloatEq(metrics.max_drawdown, Num(0))
            /\ (\A k \in 1..n : Peak(trades, k) # 0) =>
                   /\ IsFinite(metrics.max_drawdown)
                   /\ FloatLe(metrics.max_drawdown, Num(0))

\* a ledger of several trades, all of them losing, has been measured
C30_Witness ==
    /\ Measured
    /\ Len(trades) >= 2
    /\ \A k \in 1..Len(trades) : trades[k].pnl < 0

\* a ledger with a negative running peak followed by a positive one has been
\* measured, and its max_drawdown is below 0
C30_WitnessNegative ==
    /\ Measured
    /\ trades # << >>
    /\ \A k \in 1..Len(trades) : Peak(trades, k) # 0
    /\ Below(metrics.max_drawdown, Num(0))

====
